---- MODULE Spec2Model ----
(***************************************************************************)
(* A model of rendercv's configuration-override, render-pipeline and       *)
(* file-watcher code (src/rendercv/cli/utilities.py) and of the theme      *)
(* validator (src/rendercv/data/models/design.py).                         *)
(*                                                                         *)
(* These specifications share the variables of the module:                 *)
(*   SpecOverride  set_or_update_a_value / set_or_update_values            *)
(*   SpecOverwrite set_or_update_a_value called twice for one path         *)
(*   SpecPipeline  run_rendercv_with_printer (with validate_design_options)*)
(*   SpecTheme     validate_design_options                                 *)
(*   SpecWatcher   run_a_function_if_a_file_changes                        *)
(*   SpecParse     parse_validation_errors                                 *)
(*   SpecBold      make_given_keywords_bold_in_a_dictionary                *)
(* Each one holds the variables of the other components constant.          *)
(***************************************************************************)
EXTENDS Integers, Sequences, FiniteSets, TLC

VARIABLES
    \* ---- override resolver ----
    heap,       \* the Python objects: a sequence of dicts and lists, object id = index
    prevHeap,   \* the heap as it was when the last instruction started
    lastOp,     \* what the last call of set_or_update_a_value did
    nOps,       \* instructions applied so far by set_or_update_values
    plan,       \* the path a caller sets twice, the two values, and the tree at the start
    \* ---- render pipeline ----
    pin,        \* the arguments of run_rendercv_with_printer and the files on disk
    pstage,     \* the stage the pipeline is at ("entry" before line 500, "end" after line 625)
    pphase,     \* "before" a stage, "running" it, "returned" or "raised"
    number_of_steps,  \* the total handed to LiveProgressReporter
    log,        \* the calls of start_a_step / finish_the_current_step, and the failure
    cwd,        \* the working directory of the process
    entryCwd,   \* the working directory when the current run was entered
    themeCall,  \* what the last call of validate_design_options did
    runs,       \* runs of the pipeline started so far
    \* ---- file watcher ----
    wstep,      \* the statement of MainProgram the main thread is at
    wphase,     \* "at" it, "in_function", "stop", "join", "returned" or "raised"
    werr,       \* the exception that left run_a_function_if_a_file_changes
    obs,        \* the observer thread: "not_started", "checking", "getting",
                \* "handling", "stopped" or "dead"
    queue,      \* the observer's event queue: event paths, and its stop marker
    stopRequested,  \* observer.stop() was called
    calls,      \* invocations of the function so far
    inFlight,   \* invocations of the function that have not ended
    delivered,  \* the paths of the events handed to on_modified so far
    emitted,    \* file system events put on the queue so far
    interrupted,    \* where the main thread was when the interrupt signal came ("": not yet)
    handlerFailures,    \* invocations made by on_modified that raised
    \* ---- validation error parser ----
    failures,   \* the errors of the pydantic.ValidationError handed to the parser
    parsed,     \* what the call of parse_validation_errors did
    \* ---- keyword emphasis ----
    bold_keywords, \* the keywords handed to make_given_keywords_bold_in_a_dictionary
    doc,        \* the objects of the dictionary handed to it (object 1), before the call
    bolded      \* what the call did: the objects afterwards and the returned dict

overrideVars == <<heap, prevHeap, lastOp, nOps, plan>>

pipelineVars ==
    <<pin, pstage, pphase, number_of_steps, log, cwd, entryCwd, themeCall, runs>>

watcherVars ==
    <<wstep, wphase, werr, obs, queue, stopRequested, calls, inFlight, delivered,
      emitted, interrupted, handlerFailures>>

parseVars == <<failures, parsed>>

boldVars == <<bold_keywords, doc, bolded>>

vars == <<heap, prevHeap, lastOp, nOps, plan,
          pin, pstage, pphase, number_of_steps, log, cwd, entryCwd, themeCall, runs,
          wstep, wphase, werr, obs, queue, stopRequested, calls, inFlight, delivered,
          emitted, interrupted, handlerFailures, failures, parsed, bold_keywords, doc, bolded>>

(***************************************************************************)
(* Bounds of the model.                                                    *)
(***************************************************************************)
\* the longest dotted path, in segments
MaxDepth == 2
\* the number of instructions of one set_or_update_values batch
MaxOps == 2
\* the number of times the pipeline is run in one process (watch mode reruns it)
MaxRuns == 2
\* the number of file system events the observer sees
MaxEvents == 2
\* the number of errors of the ValidationError handed to the parser
MaxFailures == 2
\* the number of keywords of bold_keywords
MaxKeywords == 2

(***************************************************************************)
(* Python values.  A value is None, a str (a sequence of characters) or a  *)
(* reference to a dict or list of the heap.                                *)
(***************************************************************************)
None == [t |-> "none", id |-> 0, s |-> <<>>]

Str(chars) == [t |-> "str", id |-> 0, s |-> chars]

Ref(i) == [t |-> "ref", id |-> i, s |-> <<>>]

EmptyMap == [k \in {} |-> None]

Dict(m) == [kind |-> "dict", m |-> m, l |-> <<>>]

List(l) == [kind |-> "list", m |-> EmptyMap, l |-> l]

IsList(h, v) == v.t = "ref" /\ h[v.id].kind = "list"

IsDict(h, v) == v.t = "ref" /\ h[v.id].kind = "dict"

(***************************************************************************)
(* str.split(".") and ".".join(...) on character sequences.                *)
(***************************************************************************)
RECURSIVE Split(_)
Split(key) ==
    IF \A i \in 1..Len(key) : key[i] # "."
    THEN <<key>>
    ELSE LET d == CHOOSE i \in 1..Len(key) :
                       key[i] = "." /\ \A j \in 1..(i - 1) : key[j] # "."
         IN <<SubSeq(key, 1, d - 1)>> \o Split(SubSeq(key, d + 1, Len(key)))

RECURSIVE Join(_)
Join(keys) ==
    IF Len(keys) = 0 THEN <<>>
    ELSE IF Len(keys) = 1 THEN keys[1]
    ELSE keys[1] \o <<".">> \o Join(Tail(keys))

(***************************************************************************)
(* int(str): an optional sign followed by one or more digits.              *)
(***************************************************************************)
Digits == <<"0", "1", "2", "3", "4", "5", "6", "7", "8", "9">>

IsDigit(c) == \E d \in 1..Len(Digits) : Digits[d] = c

DigitValue(c) == (CHOOSE d \in 1..Len(Digits) : Digits[d] = c) - 1

Unsigned(seg) == IF Len(seg) > 0 /\ seg[1] \in {"-", "+"} THEN Tail(seg) ELSE seg

IsInt(seg) ==
    /\ Len(Unsigned(seg)) > 0
    /\ \A i \in 1..Len(Unsigned(seg)) : IsDigit(Unsigned(seg)[i])

RECURSIVE Magnitude(_)
Magnitude(ds) ==
    IF Len(ds) = 0 THEN 0
    ELSE 10 * Magnitude(SubSeq(ds, 1, Len(ds) - 1)) + DigitValue(ds[Len(ds)])

IntOf(seg) ==
    IF seg[1] = "-" THEN 0 - Magnitude(Unsigned(seg)) ELSE Magnitude(Unsigned(seg))

\* `sub in s` for two str: s contains sub as a substring
Contains(s, sub) ==
    \E i \in 1..(Len(s) - Len(sub) + 1) : SubSeq(s, i, i + Len(sub) - 1) = sub

\* a Python list index: i in -n..n-1, negative ones counting from the end
IndexInRange(l, i) == 0 - Len(l) <= i /\ i < Len(l)

Position(l, i) == IF i >= 0 THEN i + 1 ELSE Len(l) + i + 1

(***************************************************************************)
(* Inputs of the override resolver.                                        *)
(***************************************************************************)
\* path segments: a mapping key, a non-negative index, a negative index
Segments == {<<"a">>, <<"0">>, <<"-", "1">>}

RECURSIVE SegmentLists(_)
SegmentLists(n) ==
    IF n = 0 THEN {<<>>}
    ELSE {<<>>} \cup {<<s>> \o r : s \in Segments, r \in SegmentLists(n - 1)}

\* the dotted paths of one to MaxDepth segments, as the strings the caller passes
Paths == {Join(segs) : segs \in SegmentLists(MaxDepth) \ {<<>>}}

\* raw values: a plain string, and a brace-delimited text that is no literal
RawValues == {<<"v">>, <<"{", "x", "}">>}

\* raw values that are the literal of an empty dict and of an empty list
Literals == {<<"{", "}">>, <<"[", "]">>}

\* the configuration trees the input file may hold (object 1 is the root dict)
InitHeaps ==
    { <<Dict((<<"a">> :> Ref(2))), List(<<Str(<<"a", "n">>), Ref(3)>>),
        Dict((<<"a">> :> Str(<<"a", "n">>)))>>,
      <<Dict((<<"a">> :> Ref(2))), List(<<>>)>>,
      <<Dict((<<"a">> :> None))>>,
      <<Dict((<<"a">> :> Ref(2))), Dict((<<"a">> :> Str(<<"a", "n">>)))>>,
      <<Dict((<<"a">> :> Str(<<"a", "n">>)))>> }

(***************************************************************************)
(* Python's item access on the heap.  Every operator returns a record      *)
(* [h, ok, err, val]: the heap afterwards, whether it returned, the        *)
(* exception it raised, and its value.                                     *)
(***************************************************************************)
Returned(h, v) == [h |-> h, ok |-> TRUE, err |-> "", val |-> v]

Raised(h, e) == [h |-> h, ok |-> FALSE, err |-> e, val |-> None]

\* eval(value) of a text wrapped in {} or []: a literal gives a new object
Eval(h, value) ==
    IF value = <<"{", "}">> THEN Returned(Append(h, Dict(EmptyMap)), Ref(Len(h) + 1))
    ELSE IF value = <<"[", "]">> THEN Returned(Append(h, List(<<>>)), Ref(Len(h) + 1))
    ELSE Raised(h, "NameError")

StartsWith(s, c) == Len(s) > 0 /\ s[1] = c

EndsWith(s, c) == Len(s) > 0 /\ s[Len(s)] = c

\* lines 50-55: texts that look like a dict or a list are evaluated
Decode(h, value) ==
    IF StartsWith(value, "{") /\ EndsWith(value, "}") THEN Eval(h, value)
    ELSE IF StartsWith(value, "[") /\ EndsWith(value, "]") THEN Eval(h, value)
    ELSE Returned(h, Str(value))

\* container[key]: key is an int for a list (converted by the caller)
GetItem(h, container, key) ==
    IF IsList(h, container)
    THEN IF IndexInRange(h[container.id].l, IntOf(key))
         THEN Returned(h, h[container.id].l[Position(h[container.id].l, IntOf(key))])
         ELSE Raised(h, "IndexError")
    ELSE IF IsDict(h, container)
    THEN IF key \in DOMAIN h[container.id].m
         THEN Returned(h, h[container.id].m[key])
         ELSE Raised(h, "KeyError")
    ELSE Raised(h, "TypeError")

\* a variant that drops the sibling keys
DictWithOnly(m, key, v) == [k \in {key} |-> v]

\* dict.__setitem__: the dict m with key set to v, every other key kept
DictWith(m, key, v) == [k \in (DOMAIN m) \cup {key} |-> IF k = key THEN v ELSE m[k]]

\* a variant whose list assignment inserts the value instead of replacing one
SetItemInserting(h, container, key, v) ==
    IF IsList(h, container)
    THEN IF IndexInRange(h[container.id].l, IntOf(key))
         THEN Returned([h EXCEPT ![container.id].l = <<v>> \o h[container.id].l], v)
         ELSE Raised(h, "IndexError")
    ELSE IF IsDict(h, container)
    THEN Returned([h EXCEPT ![container.id].m = DictWith(h[container.id].m, key, v)], v)
    ELSE Raised(h, "TypeError")

\* container[key] = v, in place
SetItem(h, container, key, v) ==
    IF IsList(h, container)
    THEN IF IndexInRange(h[container.id].l, IntOf(key))
         THEN Returned([h EXCEPT ![container.id].l[Position(h[container.id].l, IntOf(key))] = v], v)
         ELSE Raised(h, "IndexError")
    ELSE IF IsDict(h, container)
    THEN Returned([h EXCEPT ![container.id].m = DictWith(h[container.id].m, key, v)], v)
    ELSE Raised(h, "TypeError")

\* `first_key in updated_dict` (line 70), for a dict or a str
KeyIn(h, container, key) ==
    IF IsDict(h, container) THEN key \in DOMAIN h[container.id].m
    ELSE container.t = "str" /\ Contains(container.s, key)

\* a variant that attaches the new sub dictionary before it is filled
SubDictionaryAttachedEarly(h, updated_dict, first_key) ==
    IF IsList(h, updated_dict) \/ KeyIn(h, updated_dict, first_key)
    THEN GetItem(h, updated_dict, first_key) @@ [created |-> {}]
    ELSE IF IsDict(h, updated_dict)
    THEN [h |-> [Append(h, Dict(EmptyMap)) EXCEPT ![updated_dict.id].m =
                     DictWith(h[updated_dict.id].m, first_key, Ref(Len(h) + 1))],
          ok |-> TRUE, err |-> "", val |-> Ref(Len(h) + 1), created |-> {Len(h) + 1}]
    ELSE [h |-> Append(h, Dict(EmptyMap)), ok |-> TRUE, err |-> "",
          val |-> Ref(Len(h) + 1), created |-> {Len(h) + 1}]

\* lines 70-75: the sub dictionary to descend into, a new {} when the key is absent
SubDictionary(h, updated_dict, first_key) ==
    IF IsList(h, updated_dict) \/ KeyIn(h, updated_dict, first_key)
    THEN GetItem(h, updated_dict, first_key) @@ [created |-> {}]
    ELSE [h |-> Append(h, Dict(EmptyMap)), ok |-> TRUE, err |-> "",
          val |-> Ref(Len(h) + 1), created |-> {Len(h) + 1}]

(***************************************************************************)
(* set_or_update_a_value: the result is [h, ok, err, ret, leaf, seg,       *)
(* created]: the heap afterwards, whether the call returned, the exception *)
(* raised, the returned container, the container the last segment was      *)
(* applied to, that segment, and the objects that line 75 created.         *)
(***************************************************************************)
Failure(h, e) ==
    [h |-> h, ok |-> FALSE, err |-> e, ret |-> None, leaf |-> None, seg |-> <<>>,
     created |-> {}]

\* a result of the last level: the container and segment it was about
AtLeaf(r, container, key) == [r EXCEPT !.leaf = container, !.seg = key]

RECURSIVE set_or_update_a_value(_, _, _, _, _)
set_or_update_a_value(h, dictionary, key, value, sub_dictionary) ==
    LET keys == Split(key)
        updated_dict == IF sub_dictionary # None THEN sub_dictionary ELSE dictionary
    IN  IF Len(keys) = 1
        THEN LET d == Decode(h, value)
             IN  IF ~d.ok THEN AtLeaf(Failure(d.h, d.err), updated_dict, key)
                 ELSE IF IsList(d.h, updated_dict) /\ ~IsInt(key)
                 THEN AtLeaf(Failure(d.h, "ValueError"), updated_dict, key)
                 ELSE LET s == SetItem(d.h, updated_dict, key, d.val)
                      IN  IF ~s.ok THEN AtLeaf(Failure(s.h, s.err), updated_dict, key)
                          ELSE [h |-> s.h, ok |-> TRUE, err |-> "", ret |-> updated_dict,
                                leaf |-> updated_dict, seg |-> key, created |-> {}]
        ELSE LET first_key == keys[1]
                 rest == Join(Tail(keys))
             IN  IF IsList(h, updated_dict) /\ ~IsInt(first_key)
                 THEN Failure(h, "ValueError")
                 ELSE LET g == SubDictionary(h, updated_dict, first_key)
                      IN  IF ~g.ok THEN Failure(g.h, g.err)
                          ELSE LET r == set_or_update_a_value(g.h, dictionary, rest,
                                                              value, g.val)
                               IN  IF ~r.ok THEN r
                                   ELSE LET s == SetItem(r.h, updated_dict, first_key, r.ret)
                                        IN  IF ~s.ok THEN Failure(s.h, s.err)
                                            ELSE [r EXCEPT !.h = s.h,
                                                           !.ret = updated_dict,
                                                           !.created = r.created \cup g.created]

NoOp ==
    [ok |-> TRUE, err |-> "", leaf |-> None, seg |-> <<>>, created |-> {}, applied |-> FALSE]

\* the objects of the caller's frames die with the exception that unwinds them
AfterCall(before, r) == IF r.ok THEN r.h ELSE SubSeq(r.h, 1, Len(before))

\* no path is planned to be set twice
NoPlan == [key |-> <<>>, values |-> <<>>, start |-> <<Dict(EmptyMap)>>]

OverrideInit ==
    /\ heap \in InitHeaps
    /\ prevHeap = heap
    /\ lastOp = NoOp
    /\ nOps = 0
    /\ plan = NoPlan

\* one iteration of the loop of set_or_update_values; an exception ends the loop
ApplyInstruction ==
    /\ nOps < MaxOps
    /\ lastOp.ok
    /\ \E key \in Paths, value \in RawValues :
          LET r == set_or_update_a_value(heap, Ref(1), key, value, None)
          IN  /\ heap' = AfterCall(heap, r)
              /\ prevHeap' = heap
              /\ lastOp' = [ok |-> r.ok, err |-> r.err, leaf |-> r.leaf, seg |-> r.seg,
                            created |-> r.created, applied |-> TRUE]
              /\ nOps' = nOps + 1
    /\ UNCHANGED plan
    /\ UNCHANGED pipelineVars
    /\ UNCHANGED watcherVars
    /\ UNCHANGED <<parseVars, boldVars>>

OverrideIdle ==
    /\ heap = <<Dict(EmptyMap)>>
    /\ prevHeap = heap
    /\ lastOp = NoOp
    /\ nOps = 0
    /\ plan = NoPlan

OverrideNext == ApplyInstruction

(***************************************************************************)
(* A caller that sets one path of the tree twice: two calls of             *)
(* set_or_update_a_value(dictionary, key, value) with the same key, as two *)
(* runs of set_or_update_values make them (one key_and_values dict holds a *)
(* key once).                                                              *)
(***************************************************************************)
\* the values the two calls set
OverwriteValues == RawValues \cup Literals

OverwriteInit ==
    /\ heap \in InitHeaps
    /\ prevHeap = heap
    /\ lastOp = NoOp
    /\ nOps = 0
    /\ plan \in [key : Paths, values : OverwriteValues \X OverwriteValues, start : {heap}]

\* the next call of the plan; an exception of a call ends the sequence
Overwrite ==
    /\ nOps < Len(plan.values)
    /\ lastOp.ok
    /\ LET r == set_or_update_a_value(heap, Ref(1), plan.key, plan.values[nOps + 1], None)
       IN  /\ heap' = AfterCall(heap, r)
           /\ prevHeap' = heap
           /\ lastOp' = [ok |-> r.ok, err |-> r.err, leaf |-> r.leaf, seg |-> r.seg,
                         created |-> r.created, applied |-> TRUE]
           /\ nOps' = nOps + 1
    /\ UNCHANGED plan
    /\ UNCHANGED pipelineVars
    /\ UNCHANGED watcherVars
    /\ UNCHANGED <<parseVars, boldVars>>

OverwriteNext == Overwrite

(***************************************************************************)
(* validate_design_options (design.py).  Theme names are character         *)
(* sequences; the files on disk are a set of [dir, folder, file] records,  *)
(* a file name being the sequence of the strings it is concatenated from.  *)
(***************************************************************************)
Classic == <<"c", "l", "a", "s", "s", "i", "c">>

Moderncv == <<"m", "o", "d", "e", "r", "n", "c", "v">>

Sb2nov == <<"s", "b", "2", "n", "o", "v">>

Engineeringresumes ==
    <<"e", "n", "g", "i", "n", "e", "e", "r", "i", "n", "g", "r", "e", "s", "u", "m", "e", "s">>

\* the keys of available_theme_options
available_themes == {Classic, Moderncv, Sb2nov, Engineeringresumes}

AsciiLetters ==
    {"a", "b", "c", "d", "e", "f", "g", "h", "i", "j", "k", "l", "m", "n", "o", "p", "q",
     "r", "s", "t", "u", "v", "w", "x", "y", "z", "A", "B", "C", "D", "E", "F", "G", "H",
     "I", "J", "K", "L", "M", "N", "O", "P", "Q", "R", "S", "T", "U", "V", "W", "X", "Y",
     "Z"}

AsciiDigits == {"0", "1", "2", "3", "4", "5", "6", "7", "8", "9"}

\* characters outside ASCII that Unicode classes as letters or digits
\* (U+00E9 e with acute accent, U+0663 ARABIC-INDIC DIGIT THREE)
UnicodeAlnum == {"U+00E9", "U+0663"}

\* a variant that only tests that the name is not empty
IsNotEmpty(name) == Len(name) > 0

\* str.isalnum(): non-empty and every character a Unicode letter or digit
IsAlnum(name) ==
    /\ Len(name) > 0
    /\ \A i \in 1..Len(name) : name[i] \in AsciiLetters \cup AsciiDigits \cup UnicodeAlnum

\* the entry type names handed to validate_design_options
available_entry_type_names == <<"OneLineEntry", "TextEntry">>

\* lines 92-101
required_files ==
    <<<<"SectionBeginning", ".j2.tex">>, <<"SectionEnding", ".j2.tex">>,
      <<"Preamble", ".j2.tex">>, <<"Header", ".j2.tex">>>>
    \o [i \in 1..Len(available_entry_type_names) |->
            <<available_entry_type_names[i]>> \o <<".j2.tex">>]

\* the folder itself, and the optional module of a custom theme
Folder == <<>>

InitFile == <<"__init__", ".py">>

\* pathlib.Path.exists()
Exists(files, dir, folder, file) == [dir |-> dir, folder |-> folder, file |-> file] \in files

\* a variant that reports the last required file that is missing
LastMissing(files, dir, folder) ==
    LET missing == {i \in 1..Len(required_files) :
                        ~Exists(files, dir, folder, required_files[i])}
    IN  IF missing = {} THEN 0 ELSE CHOOSE i \in missing : \A j \in missing : i >= j

\* the first required file that is missing (the loop of lines 103-114 raises at it)
FirstMissing(files, dir, folder) ==
    LET missing == {i \in 1..Len(required_files) :
                        ~Exists(files, dir, folder, required_files[i])}
    IN  IF missing = {} THEN 0 ELSE CHOOSE i \in missing : \A j \in missing : i <= j

\* an argument of the raised ValueError: a str, or a tuple holding one str
\* (text: the message, file: the file it names, name: the theme name it carries)
StrArg(text) == [kind |-> "str", text |-> text, file |-> <<>>, name |-> <<>>]

TupleArg(text) == [kind |-> "tuple", text |-> text, file |-> <<>>, name |-> <<>>]

NameArg(name) == [kind |-> "str", text |-> "theme_name", file |-> <<>>, name |-> name]

DesignReturns(schema, c) == [ok |-> TRUE, args |-> <<>>, schema |-> schema, cwd |-> c]

DesignRaises(args, c) == [ok |-> FALSE, args |-> args, schema |-> "", cwd |-> c]

\* ThemeDataModel(**design): the schema accepts the fields of the design or not
ModelValidates(design, schema, c) ==
    IF design.fields = "rejected" THEN DesignRaises(<<StrArg("ValidationError")>>, c)
    ELSE DesignReturns(schema, c)

\* lines 119-159: the schema of a custom theme whose files are all there
CustomThemeSchema(design, c, files, plugin) ==
    IF Exists(files, c, design.theme, InitFile)
    THEN IF plugin = "syntax_error"
         THEN DesignRaises(<<StrArg("__init__.py has a syntax error")>>, c)
         ELSE IF plugin = "import_error"
         THEN DesignRaises(<<TupleArg("__init__.py has an import error")>>, c)
         ELSE ModelValidates(design, "plugin", c)
    ELSE DesignReturns("ThemeOptionsAreNotProvided", c)

\* validate_design_options with the process in directory c: the result, and the
\* directory the process is in afterwards.  No path of the function changes the
\* directory but line 161, which sets it to the directory of line 51.
validate_design_options(design, c, files, input_file_directory, plugin) ==
    LET original_working_directory == c
    IN  IF design.validated THEN DesignReturns("builtin", c)
        ELSE IF design.theme \in available_themes THEN ModelValidates(design, "builtin", c)
        ELSE IF ~IsAlnum(design.theme)
        THEN DesignRaises(<<StrArg("The custom theme name should only contain letters and digits."),
                            StrArg("theme"), NameArg(design.theme)>>, c)
        ELSE IF ~Exists(files, input_file_directory, design.theme, Folder)
        THEN DesignRaises(<<TupleArg("The custom theme folder does not exist."),
                            StrArg(""), NameArg(design.theme)>>, c)
        ELSE IF FirstMissing(files, input_file_directory, design.theme) # 0
        THEN DesignRaises(
                 <<[kind |-> "str", text |-> "file not found in the folder",
                    file |-> required_files[FirstMissing(files, input_file_directory,
                                                         design.theme)],
                    name |-> <<>>],
                   StrArg(""), NameArg(design.theme)>>, c)
        ELSE LET r == CustomThemeSchema(design, c, files, plugin)
             IN  IF r.ok THEN [r EXCEPT !.cwd = original_working_directory] ELSE r

(***************************************************************************)
(* run_rendercv_with_printer.                                              *)
(***************************************************************************)
Stages == <<"Validate", "Typeset", "PDF", "PNG", "Markdown", "HTML">>

StageIndex(s) == CHOOSE i \in 1..Len(Stages) : Stages[i] = s

\* line 511
AllSteps == 6

\* The skip flags as the input dictionary holds them: the booleans of the YAML
\* file, or the text a command-line override stored (set_or_update_a_value
\* stores str values).
RawFlagValues == {"True", "False", "'false'"}

FlagNames == {"dont_generate_png", "dont_generate_markdown", "dont_generate_html"}

\* Python's truth value of a raw flag: False is false, a non-empty str is true
Truthy(v) == v # "False"

\* the value of the flag in the validated RenderCommandSettings
Validated(v) == v = "True"

\* a variant of the step count without the nesting of lines 515-519
NumberOfStepsFlat(render_command_settings_dict) ==
    AllSteps
    - (IF Truthy(render_command_settings_dict["dont_generate_png"]) THEN 1 ELSE 0)
    - (IF Truthy(render_command_settings_dict["dont_generate_markdown"]) THEN 2 ELSE 0)
    - (IF Truthy(render_command_settings_dict["dont_generate_html"]) THEN 1 ELSE 0)

\* lines 511-519
NumberOfSteps(render_command_settings_dict) ==
    LET n0 == AllSteps
        n1 == IF Truthy(render_command_settings_dict["dont_generate_png"])
              THEN n0 - 1 ELSE n0
    IN  IF Truthy(render_command_settings_dict["dont_generate_markdown"])
        THEN n1 - 2
        ELSE IF Truthy(render_command_settings_dict["dont_generate_html"])
             THEN n1 - 1 ELSE n1

\* the guards of lines 583, 597 and 611, read from the validated settings
StageEnabled(s, flags) ==
    CASE s = "PNG" -> ~Validated(flags["dont_generate_png"])
      [] s = "Markdown" -> ~Validated(flags["dont_generate_markdown"])
      [] s = "HTML" -> ~Validated(flags["dont_generate_html"])
      [] OTHER -> TRUE

\* a variant with the HTML block after the Markdown block, not inside it
AfterSkipFlat(s) == IF s = "HTML" THEN "end" ELSE Stages[StageIndex(s) + 1]

\* where control goes when the guard of stage s is false: the HTML block (lines
\* 611-625) is inside the Markdown block (lines 597-625)
AfterSkip(s) == IF s = "PNG" THEN "Markdown" ELSE "end"

\* where control goes when stage s has finished
AfterFinish(s) == IF s = "HTML" THEN "end" ELSE Stages[StageIndex(s) + 1]

Dirs == {"wd", "in"}

MyTheme == <<"m", "y">>

FolderOf(dir, folder, names) ==
    {[dir |-> dir, folder |-> folder, file |-> f] : f \in names}

AllRequired == {required_files[i] : i \in 1..Len(required_files)}

\* a design that is not validated yet: its theme, whether the schema of a
\* built-in theme or of a plugin accepts its fields, and whether it has a field
\* besides theme
Design(theme, fields, extra) ==
    [validated |-> FALSE, theme |-> theme, fields |-> fields, extra |-> extra]

\* the design fields of the input: a built-in theme, custom themes, a bad name
Designs ==
    {Design(Classic, "accepted", FALSE),
     Design(Classic, "rejected", FALSE),
     Design(MyTheme, "accepted", FALSE),
     Design(<<"m", "-", "y">>, "accepted", FALSE)}

\* the files next to the input file: a complete custom theme with and without
\* its __init__.py, one with a template missing, none
FileSystems ==
    {FolderOf("in", MyTheme, AllRequired \cup {Folder, InitFile}),
     FolderOf("in", MyTheme, AllRequired \cup {Folder}),
     FolderOf("in", MyTheme, (AllRequired \ {<<"Header", ".j2.tex">>}) \cup {Folder}),
     {}}

NoThemeCall ==
    [called |-> FALSE, cwdBefore |-> "wd", cwdAfter |-> "wd",
     result |-> DesignReturns("", "wd")]

PipelineInit ==
    /\ pin \in [flags : [FlagNames -> RawFlagValues],
                input_file_directory : Dirs,
                design : Designs,
                files : FileSystems,
                plugin : {"ok"}]
    /\ pstage = "entry"
    /\ pphase = "before"
    /\ number_of_steps = 0
    /\ log = <<>>
    /\ cwd = "wd"
    /\ entryCwd = cwd
    /\ themeCall = NoThemeCall
    /\ runs = 1

PipelineIdle ==
    /\ pin = [flags |-> [f \in FlagNames |-> "False"], input_file_directory |-> "wd",
              design |-> Design(Classic, "accepted", FALSE),
              files |-> {}, plugin |-> "ok"]
    /\ pstage = "entry"
    /\ pphase = "before"
    /\ number_of_steps = 0
    /\ log = <<>>
    /\ cwd = "wd"
    /\ entryCwd = cwd
    /\ themeCall = NoThemeCall
    /\ runs = 1

Event(ev, s) == [ev |-> ev, stage |-> s]

\* lines 500-522: the step count, the reporter, and the start of the first step
ComputeStepsAndStart ==
    /\ pstage = "entry"
    /\ pphase = "before"
    /\ number_of_steps' = NumberOfSteps(pin.flags)
    /\ log' = Append(log, Event("start", "Validate"))
    /\ pstage' = "Validate"
    /\ pphase' = "running"
    /\ UNCHANGED <<pin, cwd, entryCwd, themeCall, runs>>
    /\ UNCHANGED overrideVars
    /\ UNCHANGED watcherVars
    /\ UNCHANGED <<parseVars, boldVars>>

\* the call of validate_design_options that validating the input makes
DesignResult ==
    validate_design_options(pin.design, cwd, pin.files, pin.input_file_directory,
                            pin.plugin)

ThemeCallOf(r) ==
    [called |-> TRUE, cwdBefore |-> cwd, cwdAfter |-> r.cwd, result |-> r]

\* lines 524-553: the input is valid; the process moves to the input file's directory
ValidateSucceeds ==
    /\ pstage = "Validate"
    /\ pphase = "running"
    /\ DesignResult.ok
    /\ themeCall' = ThemeCallOf(DesignResult)
    /\ cwd' = pin.input_file_directory
    /\ log' = Append(log, Event("finish", "Validate"))
    /\ pstage' = AfterFinish("Validate")
    /\ pphase' = "before"
    /\ UNCHANGED <<pin, number_of_steps, entryCwd, runs>>
    /\ UNCHANGED overrideVars
    /\ UNCHANGED watcherVars
    /\ UNCHANGED <<parseVars, boldVars>>

\* line 524 raises: the design, or another field of the input, is invalid
ValidateFails ==
    /\ pstage = "Validate"
    /\ pphase = "running"
    /\ themeCall' = ThemeCallOf(DesignResult)
    /\ cwd' = DesignResult.cwd
    /\ log' = Append(log, Event("fail", "Validate"))
    /\ pphase' = "raised"
    /\ UNCHANGED <<pin, pstage, number_of_steps, entryCwd, runs>>
    /\ UNCHANGED overrideVars
    /\ UNCHANGED watcherVars
    /\ UNCHANGED <<parseVars, boldVars>>

\* progress.start_a_step of a later stage whose guard holds
StartStage ==
    /\ pstage \in {"Typeset", "PDF", "PNG", "Markdown", "HTML"}
    /\ pphase = "before"
    /\ StageEnabled(pstage, pin.flags)
    /\ log' = Append(log, Event("start", pstage))
    /\ pphase' = "running"
    /\ UNCHANGED <<pin, pstage, number_of_steps, cwd, entryCwd, themeCall, runs>>
    /\ UNCHANGED overrideVars
    /\ UNCHANGED watcherVars
    /\ UNCHANGED <<parseVars, boldVars>>

\* the guard of a later stage is false: its block is skipped
SkipStage ==
    /\ pstage \in {"PNG", "Markdown", "HTML"}
    /\ pphase = "before"
    /\ ~StageEnabled(pstage, pin.flags)
    /\ pstage' = AfterSkip(pstage)
    /\ UNCHANGED <<pin, pphase, number_of_steps, log, cwd, entryCwd, themeCall, runs>>
    /\ UNCHANGED overrideVars
    /\ UNCHANGED watcherVars
    /\ UNCHANGED <<parseVars, boldVars>>

\* the renderer returned and the artifacts were copied: finish_the_current_step
FinishStage ==
    /\ pstage \in {"Typeset", "PDF", "PNG", "Markdown", "HTML"}
    /\ pphase = "running"
    /\ log' = Append(log, Event("finish", pstage))
    /\ pstage' = AfterFinish(pstage)
    /\ pphase' = "before"
    /\ UNCHANGED <<pin, number_of_steps, cwd, entryCwd, themeCall, runs>>
    /\ UNCHANGED overrideVars
    /\ UNCHANGED watcherVars
    /\ UNCHANGED <<parseVars, boldVars>>

\* the renderer or copy_files raised: the exception leaves the function
FailStage ==
    /\ pstage \in {"Typeset", "PDF", "PNG", "Markdown", "HTML"}
    /\ pphase = "running"
    /\ log' = Append(log, Event("fail", pstage))
    /\ pphase' = "raised"
    /\ UNCHANGED <<pin, pstage, number_of_steps, cwd, entryCwd, themeCall, runs>>
    /\ UNCHANGED overrideVars
    /\ UNCHANGED watcherVars
    /\ UNCHANGED <<parseVars, boldVars>>

\* the end of the function body
Return ==
    /\ pstage = "end"
    /\ pphase = "before"
    /\ pphase' = "returned"
    /\ UNCHANGED <<pin, pstage, number_of_steps, log, cwd, entryCwd, themeCall, runs>>
    /\ UNCHANGED overrideVars
    /\ UNCHANGED watcherVars
    /\ UNCHANGED <<parseVars, boldVars>>

\* watch mode calls the function again in the same process (lines 637, 656)
Rerun ==
    /\ pphase \in {"returned", "raised"}
    /\ runs < MaxRuns
    /\ runs' = runs + 1
    /\ pstage' = "entry"
    /\ pphase' = "before"
    /\ number_of_steps' = 0
    /\ log' = <<>>
    /\ entryCwd' = cwd
    /\ UNCHANGED <<pin, cwd, themeCall>>
    /\ UNCHANGED overrideVars
    /\ UNCHANGED watcherVars
    /\ UNCHANGED <<parseVars, boldVars>>

PipelineNext ==
    \/ ComputeStepsAndStart
    \/ ValidateSucceeds
    \/ ValidateFails
    \/ StartStage
    \/ SkipStage
    \/ FinishStage
    \/ FailStage
    \/ Return
    \/ Rerun

(***************************************************************************)
(* A call of validate_design_options on its own: the design, the files on  *)
(* disk, the directory of the input file, what loading the theme's         *)
(* __init__.py does, and the directory the process is in.                  *)
(***************************************************************************)
ThemeDesigns ==
    {Design(Classic, "accepted", FALSE),
     Design(MyTheme, "accepted", FALSE),
     Design(MyTheme, "accepted", TRUE),
     Design(MyTheme, "rejected", TRUE),
     Design(<<"m", "-", "y">>, "accepted", FALSE),
     Design(<<"m", "'", "y">>, "accepted", FALSE),
     Design(<<"U+00E9">>, "accepted", FALSE),
     Design(<<>>, "accepted", FALSE)}

\* the theme folders on disk: those of FileSystems, one with two templates
\* missing, one whose __init__.py is in the other directory, and a folder
\* whose name is a letter outside ASCII
ThemeFileSystems ==
    FileSystems \cup
    {FolderOf("in", MyTheme,
              (AllRequired \ {<<"Preamble", ".j2.tex">>, <<"Header", ".j2.tex">>})
                  \cup {Folder}),
     FolderOf("in", MyTheme, AllRequired \cup {Folder})
         \cup FolderOf("wd", MyTheme, {Folder, InitFile}),
     FolderOf("in", <<"U+00E9">>, AllRequired \cup {Folder})}

\* lines 126-144: executing __init__.py succeeds, or raises SyntaxError or ImportError
PluginLoads == {"ok", "syntax_error", "import_error"}

ThemeInit ==
    /\ pin \in [flags : {[f \in FlagNames |-> "False"]},
                input_file_directory : Dirs,
                design : ThemeDesigns,
                files : ThemeFileSystems,
                plugin : PluginLoads]
    /\ pstage = "entry"
    /\ pphase = "before"
    /\ number_of_steps = 0
    /\ log = <<>>
    /\ cwd \in Dirs
    /\ entryCwd = cwd
    /\ themeCall = NoThemeCall
    /\ runs = 1

\* the call validate_design_options(design, available_theme_options, ...)
ResolveTheme ==
    /\ ~themeCall.called
    /\ themeCall' = ThemeCallOf(DesignResult)
    /\ cwd' = DesignResult.cwd
    /\ UNCHANGED <<pin, pstage, pphase, number_of_steps, log, entryCwd, runs>>
    /\ UNCHANGED overrideVars
    /\ UNCHANGED watcherVars
    /\ UNCHANGED <<parseVars, boldVars>>

ThemeNext == ResolveTheme

(***************************************************************************)
(* run_a_function_if_a_file_changes.  The main thread runs MainProgram; the *)
(* observer (watchdog.observers.Observer) is one thread that takes the     *)
(* events from its queue in turn and calls the handler for each; an        *)
(* exception that leaves the handler ends that thread.                     *)
(***************************************************************************)
\* a variant that starts observing before the first call of the function
MainProgramObserverFirst == <<"start_observer", "call_function", "loop">>

\* line 637; lines 639-662; lines 663-665
MainProgram == <<"call_function", "start_observer", "loop">>

WatchedPath == "input_file"

EventPaths == {WatchedPath, "other_file"}

\* a variant of the handler without the test of line 650
OnModifiedCallsAlways(src_path) == TRUE

\* lines 649-656: on_modified calls the function for the watched file only
OnModifiedCalls(src_path) == src_path = WatchedPath

StopMarker == "stop_event"

WatcherInit ==
    /\ wstep = 1
    /\ wphase = "at"
    /\ werr = ""
    /\ obs = "not_started"
    /\ queue = <<>>
    /\ stopRequested = FALSE
    /\ calls = 0
    /\ inFlight = 0
    /\ delivered = <<>>
    /\ emitted = 0
    /\ interrupted = ""
    /\ handlerFailures = 0

WatcherIdle == WatcherInit

\* line 637: function()
CallFunction ==
    /\ wphase = "at"
    /\ MainProgram[wstep] = "call_function"
    /\ wphase' = "in_function"
    /\ calls' = calls + 1
    /\ inFlight' = inFlight + 1
    /\ UNCHANGED <<wstep, werr, obs, queue, stopRequested, delivered, emitted,
                   interrupted, handlerFailures>>
    /\ UNCHANGED <<overrideVars, pipelineVars>>
    /\ UNCHANGED <<parseVars, boldVars>>

\* the first call returns
FunctionReturns ==
    /\ wphase = "in_function"
    /\ wphase' = "at"
    /\ wstep' = wstep + 1
    /\ inFlight' = inFlight - 1
    /\ UNCHANGED <<werr, obs, queue, stopRequested, calls, delivered, emitted,
                   interrupted, handlerFailures>>
    /\ UNCHANGED <<overrideVars, pipelineVars>>
    /\ UNCHANGED <<parseVars, boldVars>>

\* the first call raises: line 637 is in no try block
FunctionRaises ==
    /\ wphase = "in_function"
    /\ wphase' = "raised"
    /\ werr' = "Exception"
    /\ inFlight' = inFlight - 1
    /\ UNCHANGED <<wstep, obs, queue, stopRequested, calls, delivered, emitted,
                   interrupted, handlerFailures>>
    /\ UNCHANGED <<overrideVars, pipelineVars>>
    /\ UNCHANGED <<parseVars, boldVars>>

\* lines 639-662: the handler is scheduled and the observer thread started
StartObserver ==
    /\ wphase = "at"
    /\ MainProgram[wstep] = "start_observer"
    /\ obs' = "checking"
    /\ wstep' = wstep + 1
    /\ UNCHANGED <<wphase, werr, queue, stopRequested, calls, inFlight, delivered,
                   emitted, interrupted, handlerFailures>>
    /\ UNCHANGED <<overrideVars, pipelineVars>>
    /\ UNCHANGED <<parseVars, boldVars>>

\* the interrupt signal: KeyboardInterrupt is raised in the main thread, where it
\* is; only the loop of lines 664-665 is inside the try of line 663
Interrupt ==
    /\ interrupted = ""
    /\ wphase \in {"at", "in_function"}
    /\ interrupted' = IF wphase = "in_function" THEN "in_function" ELSE MainProgram[wstep]
    /\ IF wphase = "at" /\ MainProgram[wstep] = "loop"
       THEN /\ wphase' = "stop"
            /\ UNCHANGED <<werr, inFlight>>
       ELSE /\ wphase' = "raised"
            /\ werr' = "KeyboardInterrupt"
            /\ inFlight' = IF wphase = "in_function" THEN inFlight - 1 ELSE inFlight
    /\ UNCHANGED <<wstep, obs, queue, stopRequested, calls, delivered, emitted,
                   handlerFailures>>
    /\ UNCHANGED <<overrideVars, pipelineVars>>
    /\ UNCHANGED <<parseVars, boldVars>>

\* line 667: observer.stop() sets the stop flag and wakes the thread
StopObserver ==
    /\ wphase = "stop"
    /\ stopRequested' = TRUE
    /\ queue' = Append(queue, StopMarker)
    /\ wphase' = "join"
    /\ UNCHANGED <<wstep, werr, obs, calls, inFlight, delivered, emitted, interrupted,
                   handlerFailures>>
    /\ UNCHANGED <<overrideVars, pipelineVars>>
    /\ UNCHANGED <<parseVars, boldVars>>

\* line 668: observer.join() returns when the observer thread has ended
JoinObserver ==
    /\ wphase = "join"
    /\ obs \in {"stopped", "dead"}
    /\ wphase' = "returned"
    /\ UNCHANGED <<wstep, werr, obs, queue, stopRequested, calls, inFlight, delivered,
                   emitted, interrupted, handlerFailures>>
    /\ UNCHANGED <<overrideVars, pipelineVars>>
    /\ UNCHANGED <<parseVars, boldVars>>

\* the file system reports a modification to the running observer
FileModified ==
    /\ obs # "not_started"
    /\ ~stopRequested
    /\ emitted < MaxEvents
    /\ \E path \in EventPaths : queue' = Append(queue, path)
    /\ emitted' = emitted + 1
    /\ UNCHANGED <<wstep, wphase, werr, obs, stopRequested, calls, inFlight, delivered,
                   interrupted, handlerFailures>>
    /\ UNCHANGED <<overrideVars, pipelineVars>>
    /\ UNCHANGED <<parseVars, boldVars>>

\* the observer thread tests whether it should keep running
ObserverChecks ==
    /\ obs = "checking"
    /\ obs' = IF stopRequested THEN "stopped" ELSE "getting"
    /\ UNCHANGED <<wstep, wphase, werr, queue, stopRequested, calls, inFlight,
                   delivered, emitted, interrupted, handlerFailures>>
    /\ UNCHANGED <<overrideVars, pipelineVars>>
    /\ UNCHANGED <<parseVars, boldVars>>

\* the observer thread takes the next entry of the queue and dispatches it:
\* on_modified (lines 649-656) calls the function in this thread
ObserverDispatches ==
    /\ obs = "getting"
    /\ queue # <<>>
    /\ queue' = Tail(queue)
    /\ IF Head(queue) = StopMarker
       THEN /\ obs' = "checking"
            /\ UNCHANGED <<calls, inFlight, delivered>>
       ELSE /\ delivered' = Append(delivered, Head(queue))
            /\ IF OnModifiedCalls(Head(queue))
               THEN /\ obs' = "handling"
                    /\ calls' = calls + 1
                    /\ inFlight' = inFlight + 1
               ELSE /\ obs' = "checking"
                    /\ UNCHANGED <<calls, inFlight>>
    /\ UNCHANGED <<wstep, wphase, werr, stopRequested, emitted, interrupted,
                   handlerFailures>>
    /\ UNCHANGED <<overrideVars, pipelineVars>>
    /\ UNCHANGED <<parseVars, boldVars>>

\* the call made by on_modified returns
HandlerReturns ==
    /\ obs = "handling"
    /\ obs' = "checking"
    /\ inFlight' = inFlight - 1
    /\ UNCHANGED <<wstep, wphase, werr, queue, stopRequested, calls, delivered,
                   emitted, interrupted, handlerFailures>>
    /\ UNCHANGED <<overrideVars, pipelineVars>>
    /\ UNCHANGED <<parseVars, boldVars>>

\* the call made by on_modified raises: nothing catches the exception (lines
\* 649-656 have no try), so it ends the observer thread
HandlerRaises ==
    /\ obs = "handling"
    /\ obs' = "dead"
    /\ inFlight' = inFlight - 1
    /\ handlerFailures' = handlerFailures + 1
    /\ UNCHANGED <<wstep, wphase, werr, queue, stopRequested, calls, delivered,
                   emitted, interrupted>>
    /\ UNCHANGED <<overrideVars, pipelineVars>>
    /\ UNCHANGED <<parseVars, boldVars>>

WatcherNext ==
    \/ CallFunction
    \/ FunctionReturns
    \/ FunctionRaises
    \/ StartObserver
    \/ Interrupt
    \/ StopObserver
    \/ JoinObserver
    \/ FileModified
    \/ ObserverChecks
    \/ ObserverDispatches
    \/ HandlerReturns
    \/ HandlerRaises

(***************************************************************************)
(* Texts of error messages.  A text is a sequence of tokens: a punctuation *)
(* character, or a piece of text that holds no quote, comma or parenthesis. *)
(***************************************************************************)
P(c) == [c |-> "p", text |-> c, file |-> <<>>, name |-> <<>>]

T(text) == [c |-> "text", text |-> text, file |-> <<>>, name |-> <<>>]

\* the text of a str argument of an exception ('' has no token)
TokensOf(arg) ==
    IF arg.text = "" \/ (arg.text = "theme_name" /\ arg.name = <<>>) THEN <<>>
    ELSE <<[c |-> "text", text |-> arg.text, file |-> arg.file, name |-> arg.name]>>

\* repr(str) uses double quotes when the str holds a single quote
HasApostrophe(arg) == \E i \in 1..Len(arg.name) : arg.name[i] = "'"

QuoteOf(arg) == IF HasApostrophe(arg) THEN P("\"") ELSE P("'")

\* repr of an argument: of a str, or of a tuple that holds one str
Repr(arg) ==
    IF arg.kind = "tuple"
    THEN <<P("("), QuoteOf(arg)>> \o TokensOf(arg) \o <<QuoteOf(arg), P(","), P(")")>>
    ELSE <<QuoteOf(arg)>> \o TokensOf(arg) \o <<QuoteOf(arg)>>

RECURSIVE ReprOfItems(_)
ReprOfItems(args) ==
    IF Len(args) = 0 THEN <<>>
    ELSE IF Len(args) = 1 THEN Repr(args[1])
    ELSE Repr(args[1]) \o <<P(","), P(" ")>> \o ReprOfItems(Tail(args))

\* str(exception): the argument itself when there is one, the repr of the
\* tuple of arguments when there are several
StrOfException(args) ==
    IF Len(args) = 1
    THEN IF args[1].kind = "str" THEN TokensOf(args[1]) ELSE Repr(args[1])
    ELSE <<P("(")>> \o ReprOfItems(args) \o <<P(")")>>

\* the message of the error pydantic reports for a ValueError of a validator
ValueErrorPrefix == "Value error, "

MessageOfValueError(args) == <<T(ValueErrorPrefix)>> \o StrOfException(args)

(***************************************************************************)
(* get_error_message_and_location_and_value_from_a_custom_error: the       *)
(* search of the pattern of line 172: an opening parenthesis, a quote of   *)
(* either kind, group 1, a quote of either kind, a comma, a space, a       *)
(* single quote, group 2, a single quote, a comma, a space, a single       *)
(* quote, group 3, a single quote, a closing parenthesis.                  *)
(***************************************************************************)
Quotes == {P("'"), P("\"")}

At(s, i, c) == i >= 1 /\ i <= Len(s) /\ s[i] = P(c)

\* the text  , '  starts at position i
SeparatorAt(s, i) == At(s, i, ",") /\ At(s, i + 1, " ") /\ At(s, i + 2, "'")

\* the pattern matches from position a, its three groups ending before the
\* positions e1, e2 and e3
PatternMatches(s, a, e1, e2, e3) ==
    /\ At(s, a, "(")
    /\ a + 1 <= Len(s) /\ s[a + 1] \in Quotes
    /\ e1 >= a + 2 /\ e1 <= Len(s) /\ s[e1] \in Quotes /\ SeparatorAt(s, e1 + 1)
    /\ e2 >= e1 + 4 /\ At(s, e2, "'") /\ SeparatorAt(s, e2 + 1)
    /\ e3 >= e2 + 4 /\ At(s, e3, "'") /\ At(s, e3 + 1, ")")

Least(S) == CHOOSE x \in S : \A y \in S : x <= y

Greatest(S) == CHOOSE x \in S : \A y \in S : x >= y

NoCustomError == [matched |-> FALSE, message |-> <<>>, location |-> <<>>, value |-> <<>>]

\* re.search: the leftmost match, every group as long as it can be
get_error_message_and_location_and_value_from_a_custom_error(error_string) ==
    LET s == error_string
        quotes == {i \in 1..Len(s) : s[i] \in Quotes}
        M == {m \in (1..Len(s)) \X quotes \X quotes \X quotes :
                  PatternMatches(s, m[1], m[2], m[3], m[4])}
    IN  IF M = {} THEN NoCustomError
        ELSE LET a == Least({m[1] : m \in M})
                 e1 == Greatest({m[2] : m \in {x \in M : x[1] = a}})
                 e2 == Greatest({m[3] : m \in {x \in M : x[1] = a /\ x[2] = e1}})
                 e3 == Greatest({m[4] : m \in {x \in M : x[1] = a /\ x[2] = e1
                                                          /\ x[3] = e2}})
             IN  [matched |-> TRUE,
                  message |-> SubSeq(s, a + 2, e1 - 1),
                  location |-> SubSeq(s, e1 + 4, e2 - 1),
                  value |-> SubSeq(s, e2 + 4, e3 - 1)]

(***************************************************************************)
(* parse_validation_errors.  An error of a ValidationError is a record     *)
(* [msg, loc, input, ctx, cause]: msg a text, loc a tuple of segments (a   *)
(* segment is a sequence of pieces of text), input the offending value,    *)
(* ctx what the error's "ctx" holds, cause the errors of the               *)
(* ValidationError that is the __cause__ of ctx["error"].                  *)
(***************************************************************************)
StrInput(text) == [kind |-> "str", s |-> <<T(text)>>]

DictInput == [kind |-> "dict", s |-> <<>>]

Error(msg, loc, input) ==
    [msg |-> msg, loc |-> loc, input |-> input, ctx |-> "absent", cause |-> <<>>]

SectionError(loc, ctx, cause) ==
    [msg |-> <<T(ValueErrorPrefix), T("There are problems with the entries.")>>,
     loc |-> loc, input |-> DictInput, ctx |-> ctx, cause |-> cause]

\* line 198
error_dictionary ==
    [m \in {"Input should be 'present'",
            "Input should be a valid integer, unable to parse string as an integer",
            "String should match pattern '\\d{4}-\\d{2}(-\\d{2})?'",
            "String should match pattern '\\b10\\..*'",
            "URL scheme should be 'http' or 'https'",
            "Field required",
            "value is not a valid phone number",
            "month must be in 1..12",
            "day is out of range for month",
            "Extra inputs are not permitted",
            "Input should be a valid string",
            "Input should be a valid list"} |->
        CASE m = "Input should be 'present'" ->
                 "This is not a valid date! Please use either YYYY-MM-DD, YYYY-MM, or YYYY format or \"present\"!"
          [] m = "Input should be a valid integer, unable to parse string as an integer" ->
                 "This is not a valid date! Please use either YYYY-MM-DD, YYYY-MM, or YYYY format!"
          [] m = "String should match pattern '\\d{4}-\\d{2}(-\\d{2})?'" ->
                 "This is not a valid date! Please use either YYYY-MM-DD, YYYY-MM, or YYYY format!"
          [] m = "String should match pattern '\\b10\\..*'" ->
                 "A DOI prefix should always start with \"10.\". For example, \"10.1109/TASC.2023.3340648\"."
          [] m = "URL scheme should be 'http' or 'https'" -> "This is not a valid URL!"
          [] m = "Field required" -> "This field is required!"
          [] m = "value is not a valid phone number" -> "This is not a valid phone number!"
          [] m = "month must be in 1..12" -> "The month must be between 1 and 12!"
          [] m = "day is out of range for month" -> "The day is out of range for the month!"
          [] m = "Extra inputs are not permitted" ->
                 "This field is unknown for this object! Please remove it."
          [] m = "Input should be a valid string" -> "This field should be a string!"
          [] OTHER -> "This field should contain a list of items but it doesn't!"]

\* line 229
unwanted_texts == {"value is not a valid email address: ", ValueErrorPrefix}

\* line 258
unwanted_locations == <<"tagged-union", "list", "literal", "int", "constrained-str">>

\* lines 298-301
EndDateMessage ==
    "This is not a valid end date! Please use either YYYY-MM-DD, YYYY-MM, or YYYY format or \"present\"!"

ParseRaises(e) == [ok |-> FALSE, err |-> e, errors |-> <<>>, made |-> <<>>, out |-> <<>>]

\* lines 236-239
IsSectionError(e) ==
    /\ \E i \in 1..Len(e.msg) : e.msg[i] = T("There are problems with the entries.")
    /\ e.ctx # "absent"

\* line 250: the location of the section, then the cause's location without
\* its first segment
WithSectionLocation(location, cause_error_object) ==
    [cause_error_object EXCEPT !.loc = location \o SubSeq(@, 2, Len(@))]

\* lines 235-253: the loop over errors.copy(); the errors of a cause are
\* appended to errors.  Every exception has the attribute __cause__ (line
\* 244); when it is None, line 246 raises AttributeError.
RECURSIVE ExpandSectionErrors(_, _)
ExpandSectionErrors(copy, errors) ==
    IF copy = <<>> THEN [ok |-> TRUE, err |-> "", errors |-> errors]
    ELSE LET error_object == Head(copy)
         IN  IF IsSectionError(error_object)
                   /\ error_object.ctx \in {"error", "error_with_cause"}
             THEN IF error_object.ctx = "error"
                  THEN [ok |-> FALSE, err |-> "AttributeError", errors |-> errors]
                  ELSE ExpandSectionErrors(
                           Tail(copy),
                           errors \o [i \in 1..Len(error_object.cause) |->
                                          WithSectionLocation(error_object.loc,
                                                              error_object.cause[i])])
             ELSE ExpandSectionErrors(Tail(copy), errors)

\* `unwanted_location in location_element` (line 264), for the markers in turn
MarkersIn(location_element) ==
    {k \in 1..Len(unwanted_locations) :
         \E i \in 1..Len(location_element) : location_element[i] = unwanted_locations[k]}

\* list.remove(x): the first item equal to x is removed; ValueError when there is none
ListRemove(l, x) ==
    IF \E i \in 1..Len(l) : l[i] = x
    THEN LET i == Least({j \in 1..Len(l) : l[j] = x})
         IN  [ok |-> TRUE, l |-> SubSeq(l, 1, i - 1) \o SubSeq(l, i + 1, Len(l))]
    ELSE [ok |-> FALSE, l |-> l]

\* the inner loop of lines 263-265 for one element: one remove per marker it holds
RECURSIVE RemoveTimes(_, _, _)
RemoveTimes(new_location, location_element, n) ==
    IF n = 0 THEN [ok |-> TRUE, l |-> new_location]
    ELSE LET r == ListRemove(new_location, location_element)
         IN  IF ~r.ok THEN r ELSE RemoveTimes(r.l, location_element, n - 1)

\* lines 260-265 for one error, from element k of its location on
RECURSIVE CleanLocation(_, _, _)
CleanLocation(location, k, new_location) ==
    IF k > Len(location) THEN [ok |-> TRUE, l |-> new_location]
    ELSE LET r == RemoveTimes(new_location, location[k],
                              Cardinality(MarkersIn(location[k])))
         IN  IF ~r.ok THEN r ELSE CleanLocation(location, k + 1, r.l)

\* lines 259-266: the loop over the errors; the first failing remove ends it
RECURSIVE CleanLocations(_)
CleanLocations(errors) ==
    IF errors = <<>> THEN [ok |-> TRUE, err |-> "", errors |-> <<>>]
    ELSE LET r == CleanLocation(Head(errors).loc, 1, Head(errors).loc)
             rest == CleanLocations(Tail(errors))
         IN  IF ~r.ok THEN [ok |-> FALSE, err |-> "ValueError", errors |-> <<>>]
             ELSE IF ~rest.ok THEN rest
             ELSE [rest EXCEPT !.errors = <<[Head(errors) EXCEPT !.loc = r.l]>> \o @]

\* the pieces of text of a text, as the pieces of a location
PiecesOf(text) == [i \in 1..Len(text) |-> text[i].text]

IsWanted(token) == ~(token.c = "text" /\ token.text \in unwanted_texts)

InDictionary(message) ==
    /\ Len(message) = 1
    /\ message[1].c = "text"
    /\ message[1].file = <<>> /\ message[1].name = <<>>
    /\ message[1].text \in DOMAIN error_dictionary

\* lines 271-312: the diagnostic made from one error
NewError(error_object) ==
    LET custom == get_error_message_and_location_and_value_from_a_custom_error(
                      error_object.msg)
        joined == Join(error_object.loc)
        location == IF custom.matched /\ custom.location # <<>>
                    THEN joined \o <<".">> \o PiecesOf(custom.location)
                    ELSE joined
        input == IF custom.matched THEN [kind |-> "str", s |-> custom.value]
                 ELSE error_object.input
        message1 == SelectSeq(IF custom.matched THEN custom.message ELSE error_object.msg,
                              IsWanted)
        message2 == IF InDictionary(message1)
                    THEN <<T(error_dictionary[message1[1].text])>> ELSE message1
        message == IF \E i \in 1..Len(location) : location[i] = "end_date"
                   THEN <<T(EndDateMessage)>> ELSE message2
    IN  [loc |-> location, msg |-> message,
         input |-> IF input.kind \in {"dict", "list"} THEN <<>> ELSE input.s]

\* a variant that appends every diagnostic
AppendAlways(new_errors, new_error) == Append(new_errors, new_error)

\* lines 315-316
AppendIfNew(new_errors, new_error) ==
    IF \E j \in 1..Len(new_errors) : new_errors[j] = new_error THEN new_errors
    ELSE Append(new_errors, new_error)

\* lines 269-316: the loop that fills new_errors, from diagnostic k on
RECURSIVE Collect(_, _, _)
Collect(made, k, new_errors) ==
    IF k > Len(made) THEN new_errors
    ELSE Collect(made, k + 1, AppendIfNew(new_errors, made[k]))

\* the result is [ok, err, errors, made, out]: the errors after line 266, the
\* diagnostic that the loop of line 270 made from each, and the returned list
parse_validation_errors(errors) ==
    LET expanded == ExpandSectionErrors(errors, errors)
    IN  IF ~expanded.ok THEN ParseRaises(expanded.err)
        ELSE LET cleaned == CleanLocations(expanded.errors)
             IN  IF ~cleaned.ok THEN ParseRaises(cleaned.err)
                 ELSE LET made == [i \in 1..Len(cleaned.errors) |->
                                       NewError(cleaned.errors[i])]
                      IN  [ok |-> TRUE, err |-> "", errors |-> cleaned.errors,
                           made |-> made, out |-> Collect(made, 1, <<>>)]

(***************************************************************************)
(* The errors handed to the parser.                                        *)
(***************************************************************************)
Seg(text) == <<text>>

\* an end date in the first entry of a section; the names of these sections
\* hold the letters "int"
EndDateOf(section) == <<Seg("cv"), Seg("sections"), section, Seg("0"), Seg("end_date")>>

Internships == <<"int", "ernships">>

Interests == <<"int", "erests">>

RawFailures ==
    { Error(<<T("Field required")>>, <<Seg("cv"), Seg("name")>>, DictInput),
      Error(<<T("Input should be a valid integer, unable to parse string as an integer")>>,
            EndDateOf(Seg("education")) \o <<Seg("int")>>, StrInput("x")),
      Error(<<T("Input should be 'present'")>>,
            EndDateOf(Seg("education")) \o <<<<"literal", "['present']">>>>, StrInput("x")),
      Error(<<T("Input should be 'present'")>>,
            EndDateOf(Internships) \o <<<<"literal", "['present']">>>>, StrInput("x")),
      Error(<<T("Input should be 'present'")>>,
            EndDateOf(Interests) \o <<<<"literal", "['present']">>>>, StrInput("y")),
      Error(<<T("Input should be a valid string")>>,
            <<Seg("cv"), Seg("sections"), Seg("education"), <<"list", "[", "int", "]">>>>,
            StrInput("x")),
      Error(MessageOfValueError(<<StrArg("start_date can not be after end_date"),
                                  StrArg("start_date"), StrArg("x")>>),
            <<Seg("cv"), Seg("sections"), Seg("education"), Seg("0")>>, DictInput),
      SectionError(<<Seg("cv"), Seg("sections"), Seg("education")>>, "error_with_cause",
                   <<Error(<<T("Field required")>>,
                           <<Seg("entries"), Seg("0"), Seg("name")>>, DictInput)>>),
      SectionError(<<Seg("cv"), Seg("sections"), Seg("education")>>, "error", <<>>),
      SectionError(<<Seg("cv"), Seg("sections"), Seg("education")>>, "no_error", <<>>) }

RECURSIVE ListsOf(_, _)
ListsOf(S, n) ==
    IF n = 0 THEN {<<>>}
    ELSE {<<>>} \cup {<<x>> \o l : x \in S, l \in ListsOf(S, n - 1)}

NotParsed == [called |-> FALSE] @@ ParseRaises("")

ParseInit ==
    /\ failures \in ListsOf(RawFailures, MaxFailures) \ {<<>>}
    /\ parsed = NotParsed

ParseIdle ==
    /\ failures = <<>>
    /\ parsed = NotParsed

\* the call parse_validation_errors(exception)
ParseValidationErrors ==
    /\ ~parsed.called
    /\ parsed' = [called |-> TRUE] @@ parse_validation_errors(failures)
    /\ UNCHANGED failures
    /\ UNCHANGED <<overrideVars, pipelineVars, watcherVars, boldVars>>

ParseNext == ParseValidationErrors

(***************************************************************************)
(* make_given_keywords_bold_in_a_dictionary.  The dictionary is a tree of  *)
(* dicts and lists on a heap (as for the override resolver); a str is the  *)
(* sequence of its characters.  dictionary.copy() is a shallow copy: the   *)
(* lists of the copy are the lists of the original.                        *)
(***************************************************************************)
\* the characters of \w
WordCharacters == AsciiLetters \cup AsciiDigits \cup {"_"}

IsWordAt(s, p) == p >= 1 /\ p <= Len(s) /\ s[p] \in WordCharacters

\* \b between the positions p and p + 1
BoundaryAfter(s, p) == IsWordAt(s, p) # IsWordAt(s, p + 1)

OccursAt(s, i, keyword) ==
    i + Len(keyword) - 1 <= Len(s) /\ SubSeq(s, i, i + Len(keyword) - 1) = keyword

\* every occurrence of the keyword from position i on, found from the left
\* and not overlapping, wrapped in **: as re.sub(rf"\b{keyword}\b", ...) of
\* line 470 (whole_word) or as str.replace of line 478 (any occurrence); the
\* keyword holds letters and digits only
RECURSIVE Substitute(_, _, _, _)
Substitute(s, i, keyword, whole_word) ==
    IF i > Len(s) THEN <<>>
    ELSE IF OccursAt(s, i, keyword)
              /\ (whole_word => (BoundaryAfter(s, i - 1)
                                   /\ BoundaryAfter(s, i + Len(keyword) - 1)))
    THEN <<"*", "*">> \o keyword \o <<"*", "*">>
             \o Substitute(s, i + Len(keyword), keyword, whole_word)
    ELSE <<s[i]>> \o Substitute(s, i + 1, keyword, whole_word)

RECURSIVE make_given_keywords_bold_in_a_dictionary(_, _, _)
RECURSIVE BoldForKeywords(_, _, _, _, _)
RECURSIVE BoldForItems(_, _, _, _, _, _)
RECURSIVE BoldForListItems(_, _, _, _, _, _)

\* lines 476-482: the loop over the items of the list value, from item i on;
\* the items are assigned in new_dictionary[key], here the list target
BoldForListItems(h, target, value, keywords, k, i) ==
    IF i > Len(h[value].l) THEN h
    ELSE LET item == h[value].l[i]
         IN  IF item.t = "str"
             THEN BoldForListItems(
                      [h EXCEPT ![target].l[i] =
                           Str(Substitute(item.s, 1, keywords[k], FALSE))],
                      target, value, keywords, k, i + 1)
             ELSE IF IsDict(h, item)
             THEN LET r == make_given_keywords_bold_in_a_dictionary(h, item.id, keywords)
                  IN  BoldForListItems([r.h EXCEPT ![target].l[i] = Ref(r.ret)],
                                       target, value, keywords, k, i + 1)
             ELSE BoldForListItems(h, target, value, keywords, k, i + 1)

\* lines 467-482: the loop over dictionary.items() for keyword k, the keys
\* still to visit being keys
BoldForItems(h, dictionary, new_dictionary, keywords, k, keys) ==
    IF keys = {} THEN h
    ELSE LET key == CHOOSE x \in keys : TRUE
             value == h[dictionary].m[key]
             after ==
                 IF value.t = "str"
                 THEN [h EXCEPT ![new_dictionary].m[key] =
                           Str(Substitute(value.s, 1, keywords[k], TRUE))]
                 ELSE IF IsDict(h, value)
                 THEN LET r == make_given_keywords_bold_in_a_dictionary(h, value.id,
                                                                        keywords)
                      IN  [r.h EXCEPT ![new_dictionary].m[key] = Ref(r.ret)]
                 ELSE IF IsList(h, value)
                 THEN BoldForListItems(h, h[new_dictionary].m[key].id, value.id,
                                       keywords, k, 1)
                 ELSE h
         IN  BoldForItems(after, dictionary, new_dictionary, keywords, k, keys \ {key})

\* line 466: the loop over the keywords, from keyword k on
BoldForKeywords(h, dictionary, new_dictionary, keywords, k) ==
    IF k > Len(keywords) THEN h
    ELSE BoldForKeywords(
             BoldForItems(h, dictionary, new_dictionary, keywords, k,
                          DOMAIN h[dictionary].m),
             dictionary, new_dictionary, keywords, k + 1)

\* the result is [h, ret]: the heap afterwards and the returned dict, which
\* line 465 creates
make_given_keywords_bold_in_a_dictionary(h, dictionary, keywords) ==
    [h |-> BoldForKeywords(Append(h, h[dictionary]), dictionary, Len(h) + 1, keywords, 1),
     ret |-> Len(h) + 1]

\* the keywords of rendercv_settings.bold_keywords
Keywords == {<<"a">>, <<"b">>, <<"c">>}

RECURSIVE KeywordLists(_)
KeywordLists(n) ==
    IF n = 0 THEN {<<>>}
    ELSE {<<>>} \cup {<<k>> \o l : k \in Keywords, l \in KeywordLists(n - 1)}

HasNoRepetition(l) == \A i, j \in 1..Len(l) : l[i] = l[j] => i = j

\* the sections handed to the function (object 1 is the dictionary): str
\* values and str items that hold keywords as words and inside the word ab,
\* nested dicts and lists, and a value that is no str
Documents ==
    { <<Dict((<<"s">> :> Str(<<"a", " ", "b">>)))>>,
      <<Dict((<<"s">> :> Str(<<"a", "b">>)) @@ (<<"n">> :> None))>>,
      <<Dict((<<"l">> :> Ref(2))), List(<<Str(<<"a", " ", "b">>)>>)>>,
      <<Dict((<<"l">> :> Ref(2))), List(<<Str(<<"a", " ", "a", "b">>), None>>)>>,
      <<Dict((<<"d">> :> Ref(2))), Dict((<<"s">> :> Str(<<"a", " ", "b">>)))>>,
      <<Dict((<<"d">> :> Ref(2))), Dict((<<"l">> :> Ref(3))),
        List(<<Str(<<"a", " ", "c">>)>>)>>,
      <<Dict((<<"l">> :> Ref(2))), List(<<Ref(3)>>),
        Dict((<<"s">> :> Str(<<"b", " ", "c">>)) @@ (<<"n">> :> None))>>,
      <<Dict((<<"l">> :> Ref(2))), List(<<Ref(3)>>), Dict((<<"l">> :> Ref(4))),
        List(<<Str(<<"c">>)>>)>> }

NotBolded == [called |-> FALSE, h |-> <<>>, ret |-> 0]

\* line 531: the function is called when bold_keywords holds a keyword
BoldInit ==
    /\ doc \in Documents
    /\ bold_keywords \in {l \in KeywordLists(MaxKeywords) : l # <<>> /\ HasNoRepetition(l)}
    /\ bolded = NotBolded

BoldIdle ==
    /\ doc = <<>>
    /\ bold_keywords = <<>>
    /\ bolded = NotBolded

\* line 533: the call on the sections of the document
MakeKeywordsBold ==
    /\ ~bolded.called
    /\ bolded' = [called |-> TRUE]
                     @@ make_given_keywords_bold_in_a_dictionary(doc, 1, bold_keywords)
    /\ UNCHANGED <<doc, bold_keywords>>
    /\ UNCHANGED <<overrideVars, pipelineVars, watcherVars, parseVars>>

BoldNext == MakeKeywordsBold

(***************************************************************************)
(* The specifications.                                                     *)
(***************************************************************************)
InitOverride == OverrideInit /\ PipelineIdle /\ WatcherIdle /\ ParseIdle /\ BoldIdle

SpecOverride == InitOverride /\ [][OverrideNext]_vars

InitOverwrite == OverwriteInit /\ PipelineIdle /\ WatcherIdle /\ ParseIdle /\ BoldIdle

SpecOverwrite == InitOverwrite /\ [][OverwriteNext]_vars

InitPipeline == PipelineInit /\ OverrideIdle /\ WatcherIdle /\ ParseIdle /\ BoldIdle

SpecPipeline == InitPipeline /\ [][PipelineNext]_vars

InitTheme == ThemeInit /\ OverrideIdle /\ WatcherIdle /\ ParseIdle /\ BoldIdle

SpecTheme == InitTheme /\ [][ThemeNext]_vars

InitWatcher == WatcherInit /\ OverrideIdle /\ PipelineIdle /\ ParseIdle /\ BoldIdle

SpecWatcher == InitWatcher /\ [][WatcherNext]_vars

InitParse == ParseInit /\ OverrideIdle /\ PipelineIdle /\ WatcherIdle /\ BoldIdle

SpecParse == InitParse /\ [][ParseNext]_vars

InitBold == BoldInit /\ OverrideIdle /\ PipelineIdle /\ WatcherIdle /\ ParseIdle

SpecBold == InitBold /\ [][BoldNext]_vars

(***************************************************************************)
(* Properties of the override resolver (checked under SpecOverride).       *)
(***************************************************************************)
\* the last instruction reached its last segment on a list of the tree
LeafWasList ==
    /\ lastOp.applied
    /\ lastOp.leaf.t = "ref"
    /\ lastOp.leaf.id <= Len(prevHeap)
    /\ prevHeap[lastOp.leaf.id].kind = "list"

\* C1: an instruction that fails leaves the tree exactly as it was when the
\* instruction started (so, in a batch, as the preceding successful
\* instructions left it): no object of the tree is changed and none is added.
C1_FailedInstructionLeavesTreeUnchanged ==
    (lastOp.applied /\ ~lastOp.ok) => heap = prevHeap

\* C1 witness: the second instruction of a batch failed after the first one
\* had changed the tree.
C1_Witness ==
    /\ nOps = 2
    /\ ~lastOp.ok
    /\ lastOp.err \in {"IndexError", "ValueError", "TypeError", "NameError"}
    /\ heap \notin InitHeaps

\* C9: on a list of length n the last segment succeeds only as an integer i
\* with 0 <= i < n, replacing exactly element i and keeping the length; a
\* non-integer segment fails with a path error (ValueError) and every integer
\* outside 0..n-1, the negative ones included, fails with IndexError.
C9_SequenceLeafContract ==
    (LeafWasList /\ lastOp.err # "NameError") =>
        LET id == lastOp.leaf.id
            n == Len(prevHeap[id].l)
            seg == lastOp.seg
        IN  IF ~IsInt(seg) THEN ~lastOp.ok /\ lastOp.err = "ValueError"
            ELSE IF IntOf(seg) < 0 \/ IntOf(seg) >= n
            THEN ~lastOp.ok /\ lastOp.err = "IndexError"
            ELSE /\ lastOp.ok
                 /\ Len(heap[id].l) = n
                 /\ \A j \in 1..n : j # IntOf(seg) + 1 => heap[id].l[j] = prevHeap[id].l[j]

\* C10: a successful instruction removes no key of any dict of the tree, and
\* every container it had to create is a dict (filled by the instruction),
\* never a list.
C10_KeysKeptAndCreatedAreMappings ==
    (lastOp.applied /\ lastOp.ok) =>
        /\ \A id \in 1..Len(prevHeap) :
              /\ heap[id].kind = prevHeap[id].kind
              /\ (DOMAIN prevHeap[id].m) \subseteq (DOMAIN heap[id].m)
        /\ \A id \in lastOp.created :
              /\ id > Len(prevHeap)
              /\ heap[id].kind = "dict"
              /\ DOMAIN heap[id].m # {}

\* C10 witness: an instruction succeeded on a dict that had keys, creating an
\* intermediate container.
C10_Witness ==
    /\ lastOp.applied
    /\ lastOp.ok
    /\ lastOp.created # {}
    /\ DOMAIN prevHeap[1].m # {}

\* two values agree under a relation R between the objects of two heaps
ValuesAgree(v1, v2, R) ==
    IF v1.t # v2.t THEN FALSE
    ELSE IF v1.t = "ref" THEN <<v1.id, v2.id>> \in R
    ELSE v1.s = v2.s

\* object i of h1 and object j of h2 have the same kind, keys and length, and
\* their items agree under R
ObjectsAgree(h1, i, h2, j, R) ==
    /\ h1[i].kind = h2[j].kind
    /\ DOMAIN h1[i].m = DOMAIN h2[j].m
    /\ \A k \in DOMAIN h1[i].m : ValuesAgree(h1[i].m[k], h2[j].m[k], R)
    /\ Len(h1[i].l) = Len(h2[j].l)
    /\ \A n \in 1..Len(h1[i].l) : ValuesAgree(h1[i].l[n], h2[j].l[n], R)

\* the largest relation under which related objects agree
RECURSIVE Refine(_, _, _)
Refine(h1, h2, R) ==
    LET R2 == {p \in R : ObjectsAgree(h1, p[1], h2, p[2], R)}
    IN  IF R2 = R THEN R ELSE Refine(h1, h2, R2)

\* the trees rooted at object i of h1 and object j of h2 (at object 1 of both)
\* are equal, whatever the ids of their objects, and also when a tree refers
\* to itself
SameSubtree(h1, i, h2, j) == <<i, j>> \in Refine(h1, h2, (1..Len(h1)) \X (1..Len(h2)))

SameTree(h1, h2) == SameSubtree(h1, 1, h2, 1)

\* the tree that applying the instruction (key, value) alone to h gives
AppliedAlone(h, key, value) == set_or_update_a_value(h, Ref(1), key, value, None)

\* C11 (checked under SpecOverwrite): overwrite is idempotent: when (p, v1)
\* and then (p, v2) were applied and both succeeded, (p, v2) applied alone to
\* the tree before (p, v1) succeeds too and gives a tree equal to the one the
\* two applications gave.
C11_OverwriteIdempotent ==
    (nOps = 2 /\ lastOp.ok) =>
        /\ AppliedAlone(plan.start, plan.key, plan.values[2]).ok
        /\ SameTree(heap, AppliedAlone(plan.start, plan.key, plan.values[2]).h)

\* C11 witness: a path of two segments was set to a new dict and then to a
\* plain string, which replaced the dict.
C11_Witness ==
    /\ nOps = 2
    /\ lastOp.ok
    /\ Len(Split(plan.key)) = 2
    /\ plan.values = <<<<"{", "}">>, <<"v">>>>
    /\ heap # prevHeap
    /\ heap # plan.start

\* the value that following the first k - 1 segments of keys from the root of
\* h reaches (None when the way ends before)
RECURSIVE ReachedAt(_, _, _)
ReachedAt(h, keys, k) ==
    IF k = 1 THEN Ref(1)
    ELSE LET c == ReachedAt(h, keys, k - 1)
         IN  IF c.t # "ref" \/ (IsList(h, c) /\ ~IsInt(keys[k - 1])) THEN None
             ELSE LET g == GetItem(h, c, keys[k - 1])
                  IN  IF g.ok THEN g.val ELSE None

\* the key (of a dict) or position (of a list) x of object id is the one that
\* a segment of keys addresses in the tree h
Addressed(h, keys, id, x) ==
    \E k \in 1..Len(keys) :
        /\ ReachedAt(h, keys, k) = Ref(id)
        /\ IF h[id].kind = "dict" THEN x = keys[k]
           ELSE /\ IsInt(keys[k])
                /\ IndexInRange(h[id].l, IntOf(keys[k]))
                /\ x = Position(h[id].l, IntOf(keys[k]))

\* the objects that object id refers to
Children(h, id) ==
    {h[id].m[k].id : k \in {k \in DOMAIN h[id].m : h[id].m[k].t = "ref"}}
        \cup {h[id].l[n].id : n \in {n \in 1..Len(h[id].l) : h[id].l[n].t = "ref"}}

\* the objects of S and the objects they refer to, directly or not
RECURSIVE Descendants(_, _)
Descendants(h, S) ==
    LET more == S \cup UNION {Children(h, id) : id \in S}
    IN  IF more = S THEN S ELSE Descendants(h, more)

\* no object of the tree refers to itself or to an ancestor
NoCycle(h) ==
    \A id \in Descendants(h, {1}) : id \notin Descendants(h, Children(h, id))

\* C22 (checked under SpecOverwrite): a successful set_or_update_a_value(tree,
\* p, v) changes only what p addresses: every key of a dict and every item of
\* a list that is not on p is as before, no key is added to a container that
\* is not along p (a container the call created holds only keys of p), and
\* the resulting tree holds no reference to itself or to an ancestor; also
\* when a non-leaf segment of p names a key whose value is None or empty.
C22_OnlyThePathChangesAndNoCycle ==
    (lastOp.applied /\ lastOp.ok) =>
        LET keys == Split(plan.key)
        IN  /\ \A id \in 1..Len(prevHeap) :
                  /\ heap[id].kind = prevHeap[id].kind
                  /\ Len(heap[id].l) = Len(prevHeap[id].l)
                  /\ \A x \in DOMAIN heap[id].m :
                        \/ Addressed(heap, keys, id, x)
                        \/ x \in DOMAIN prevHeap[id].m /\ heap[id].m[x] = prevHeap[id].m[x]
                  /\ \A x \in 1..Len(heap[id].l) :
                        \/ Addressed(heap, keys, id, x)
                        \/ heap[id].l[x] = prevHeap[id].l[x]
            /\ \A id \in lastOp.created :
                  \A x \in DOMAIN heap[id].m : Addressed(heap, keys, id, x)
            /\ NoCycle(prevHeap) => NoCycle(heap)

(***************************************************************************)
(* Properties of the validation error parser (checked under SpecParse).    *)
(***************************************************************************)
\* the diagnostics of the returned list that equal d, and those at location loc
Copies(d) == {j \in 1..Len(parsed.out) : parsed.out[j] = d}

DiagnosticsAt(loc) == {j \in 1..Len(parsed.out) : parsed.out[j].loc = loc}

\* the first error from which the loop made the diagnostic d
FirstMaker(d) == Least({k \in 1..Len(parsed.made) : parsed.made[k] = d})

\* C12: parse_validation_errors never raises, whatever the segments of the
\* locations hold and whether or not the error of a section failure carries a
\* cause; and every error handed to it is represented in the returned list by
\* the diagnostic made from it.
C12_NeverRaisesNeverLoses ==
    parsed.called =>
        /\ parsed.ok
        /\ Len(parsed.made) >= Len(failures)
        /\ \A k \in 1..Len(parsed.made) : Copies(parsed.made[k]) # {}

\* C13: the errors whose location (as the diagnostics show it) holds end_date
\* and is the same are represented by exactly one diagnostic, which carries
\* the end date message, however many they are and whatever their messages
\* and inputs.
C13_OneEndDateDiagnosticPerLocation ==
    (parsed.called /\ parsed.ok) =>
        \A k \in 1..Len(parsed.made) :
            (\E i \in 1..Len(parsed.made[k].loc) : parsed.made[k].loc[i] = "end_date") =>
                /\ parsed.made[k].msg = <<T(EndDateMessage)>>
                /\ Cardinality(DiagnosticsAt(parsed.made[k].loc)) = 1

\* C14: the returned list holds no two equal diagnostics (location, message
\* and input), holds exactly the diagnostics made from the errors, and holds
\* them in the order of the first error that made each.
C14_NoDuplicatesInFirstOccurrenceOrder ==
    (parsed.called /\ parsed.ok) =>
        /\ \A i, j \in 1..Len(parsed.out) : parsed.out[i] = parsed.out[j] => i = j
        /\ \A j \in 1..Len(parsed.out) :
              \E k \in 1..Len(parsed.made) : parsed.made[k] = parsed.out[j]
        /\ \A k \in 1..Len(parsed.made) : Copies(parsed.made[k]) # {}
        /\ \A i, j \in 1..Len(parsed.out) :
              i < j => FirstMaker(parsed.out[i]) < FirstMaker(parsed.out[j])

\* C14 witness: four errors (two section failures and the errors of their
\* causes) made two pairs of equal diagnostics; two diagnostics were returned.
C14_Witness ==
    /\ parsed.called
    /\ parsed.ok
    /\ Len(parsed.made) = 4
    /\ Len(parsed.out) = 2
    /\ parsed.made[1] = parsed.made[2]
    /\ parsed.out = <<parsed.made[1], parsed.made[3]>>

(***************************************************************************)
(* Properties of the render pipeline (checked under SpecPipeline).         *)
(***************************************************************************)
\* C2: stages start only in the order Validate, Typeset, PDF, PNG, Markdown,
\* HTML; a stage starts only when the stage started before it has finished;
\* HTML starts only when Markdown is enabled and has finished; a failure is the
\* last event of a run: no stage starts after it and the failed stage is not
\* started again.
C2_StagesInOrderAndAbortOnFailure ==
    /\ \A i \in 1..Len(log) :
          /\ log[i].ev = "start" =>
                /\ i = 1 \/ log[i - 1].ev = "finish"
                /\ i = 1 => log[i].stage = "Validate"
                /\ \A j \in 1..(i - 1) :
                      log[j].ev = "start" =>
                          StageIndex(log[j].stage) < StageIndex(log[i].stage)
                /\ log[i].stage = "HTML" =>
                      /\ ~Validated(pin.flags["dont_generate_markdown"])
                      /\ \E j \in 1..(i - 1) : log[j] = Event("finish", "Markdown")
          /\ log[i].ev \in {"finish", "fail"} =>
                i > 1 /\ log[i - 1] = Event("start", log[i].stage)
          /\ log[i].ev = "fail" => i = Len(log)
    /\ pphase = "raised" => (Len(log) > 0 /\ log[Len(log)].ev = "fail")

\* C2 witness: all six stages were started in turn and the last one failed.
C2_Witness ==
    /\ pphase = "raised"
    /\ Len(log) = 12
    /\ log[Len(log)] = Event("fail", "HTML")

\* C3: for the 8 combinations of boolean skip flags the step count, computed
\* before the first stage runs, is 6 minus 1 if PNG is disabled, minus 2 if
\* Markdown is disabled, minus 1 if Markdown is enabled and HTML disabled.
C3_StepCountFormula ==
    (pstage # "entry" /\ \A f \in FlagNames : pin.flags[f] \in {"True", "False"}) =>
        number_of_steps =
            6 - (IF pin.flags["dont_generate_png"] = "True" THEN 1 ELSE 0)
              - (IF pin.flags["dont_generate_markdown"] = "True" THEN 2 ELSE 0)
              - (IF pin.flags["dont_generate_markdown"] = "False"
                    /\ pin.flags["dont_generate_html"] = "True" THEN 1 ELSE 0)

\* C3 witness: Markdown and HTML are both disabled and the count was computed
\* while only the first stage has started.
C3_Witness ==
    /\ pin.flags["dont_generate_markdown"] = "True"
    /\ pin.flags["dont_generate_html"] = "True"
    /\ pin.flags["dont_generate_png"] = "False"
    /\ log = <<Event("start", "Validate")>>
    /\ number_of_steps = 4

\* C4: the working directory of the process is the one at entry whenever
\* validate_design_options or run_rendercv_with_printer ends, by return or by
\* exception; so every run of the pipeline is entered in the directory the
\* first one was entered in.
C4_WorkingDirectoryRestored ==
    /\ themeCall.called => themeCall.cwdAfter = themeCall.cwdBefore
    /\ pphase \in {"returned", "raised"} => cwd = entryCwd
    /\ pstage = "entry" => cwd = "wd"

\* the number of events ev of the run so far
CountOf(ev) == Cardinality({i \in 1..Len(log) : log[i].ev = ev})

\* C21: whatever the raw values of the skip flags (booleans, or the text
\* "false" that an override stored and that the validated settings read as
\* false), once the count is computed finished steps <= started steps <= the
\* count given to the progress reporter, and when a run returns with no stage
\* failed the count equals the number of stages started and finished.
C21_StepCountIsTheNumberOfStagesRun ==
    /\ pstage # "entry" =>
          (CountOf("finish") <= CountOf("start") /\ CountOf("start") <= number_of_steps)
    /\ pphase = "returned" =>
          (number_of_steps = CountOf("start") /\ number_of_steps = CountOf("finish"))

(***************************************************************************)
(* Properties of the theme validator (checked under SpecTheme).            *)
(***************************************************************************)
\* the call was about a theme that is not built in
CustomThemeCall == themeCall.called /\ pin.design.theme \notin available_themes

\* the call raised one of the errors of lines 66-144 (not the ValidationError
\* of a schema)
ThemeResolutionFailed ==
    /\ CustomThemeCall
    /\ ~themeCall.result.ok
    /\ themeCall.result.args[1].text # "ValidationError"

\* the diagnostic that parse_validation_errors makes from the error pydantic
\* reports for the raised ValueError at the design field
DiagnosticOfThemeFailure ==
    NewError(Error(MessageOfValueError(themeCall.result.args), <<Seg("design")>>,
                   DictInput))

\* what the call settled: returned or raised, the arguments of the error,
\* the schema
Outcome(r) == <<r.ok, r.args, r.schema>>

\* C15: every failure of the theme resolution (bad name, missing folder,
\* missing template, plugin that does not load) is raised with the three
\* arguments (message, location, value), and the diagnostic made from it has
\* the human message as message and the theme name as input.
C15_ThemeFailuresAreCustomErrors ==
    ThemeResolutionFailed =>
        /\ Len(themeCall.result.args) = 3
        /\ DiagnosticOfThemeFailure.msg =
               <<[c |-> "text", text |-> themeCall.result.args[1].text,
                  file |-> themeCall.result.args[1].file, name |-> <<>>]>>
        /\ DiagnosticOfThemeFailure.input = TokensOf(NameArg(pin.design.theme))

\* C16 as stated: a name that is not built in and is not one or more ASCII
\* letters and digits is rejected with (message, "theme", name), whatever
\* folders and files exist.
C16_AsciiNamesOnly ==
    (CustomThemeCall
        /\ ~(Len(pin.design.theme) > 0
               /\ \A i \in 1..Len(pin.design.theme) :
                      pin.design.theme[i] \in AsciiLetters \cup AsciiDigits)) =>
        themeCall.result =
            DesignRaises(<<StrArg("The custom theme name should only contain letters and digits."),
                           StrArg("theme"), NameArg(pin.design.theme)>>,
                         themeCall.cwdBefore)

\* C16 amended: a name that is not built in and is not one or more letters
\* and digits as str.isalnum classifies them (those outside ASCII included)
\* is rejected with (message, "theme", name), whatever folders and files
\* exist; so a custom theme that is accepted has such a name.
C16_LettersAndDigitsOnly ==
    (CustomThemeCall
        /\ ~(Len(pin.design.theme) > 0
               /\ \A i \in 1..Len(pin.design.theme) :
                      pin.design.theme[i] \in
                          AsciiLetters \cup AsciiDigits \cup UnicodeAlnum)) =>
        themeCall.result =
            DesignRaises(<<StrArg("The custom theme name should only contain letters and digits."),
                           StrArg("theme"), NameArg(pin.design.theme)>>,
                         themeCall.cwdBefore)

\* C16 witness: the name m-y was rejected as a name.
C16_Witness ==
    /\ themeCall.called
    /\ pin.design.theme = <<"m", "-", "y">>
    /\ ~themeCall.result.ok
    /\ themeCall.result.args[2] = StrArg("theme")

\* C17: a design that has a field besides theme is not accepted by the
\* schema used when the theme folder has no __init__.py.
C17_MinimalSchemaRejectsOtherFields ==
    (CustomThemeCall /\ themeCall.result.ok
        /\ themeCall.result.schema = "ThemeOptionsAreNotProvided") => ~pin.design.extra

\* C18: the outcome of the resolution does not depend on the directory the
\* process is in: with the same design, files and input file directory, the
\* call gives in every directory what it gave in the one it was made in.
C18_OutcomeIndependentOfWorkingDirectory ==
    themeCall.called =>
        \A c \in Dirs :
            Outcome(validate_design_options(pin.design, c, pin.files,
                                            pin.input_file_directory, pin.plugin))
                = Outcome(themeCall.result)

\* C19: for a custom theme whose folder exists, the call returns only if the
\* six required templates are all there; when some are missing it raises an
\* error whose message names the first missing one in the order
\* SectionBeginning, SectionEnding, Preamble, Header, then the entry types, and
\* no schema is selected.
C19_FirstMissingTemplateIsReported ==
    LET order == <<<<"SectionBeginning", ".j2.tex">>, <<"SectionEnding", ".j2.tex">>,
                   <<"Preamble", ".j2.tex">>, <<"Header", ".j2.tex">>,
                   <<"OneLineEntry", ".j2.tex">>, <<"TextEntry", ".j2.tex">>>>
        there(f) == [dir |-> pin.input_file_directory, folder |-> pin.design.theme,
                     file |-> f] \in pin.files
    IN  (CustomThemeCall /\ IsAlnum(pin.design.theme) /\ there(<<>>)) =>
            /\ themeCall.result.ok => \A i \in 1..6 : there(order[i])
            /\ \A i \in 1..6 :
                  (~there(order[i]) /\ \A j \in 1..(i - 1) : there(order[j])) =>
                      /\ ~themeCall.result.ok
                      /\ themeCall.result.schema = ""
                      /\ Len(themeCall.result.args) = 3
                      /\ themeCall.result.args[1].kind = "str"
                      /\ themeCall.result.args[1].file = order[i]

\* C19 witness: Preamble and Header are both missing and the error names Preamble.
C19_Witness ==
    /\ themeCall.called
    /\ [dir |-> pin.input_file_directory, folder |-> pin.design.theme, file |-> <<>>]
           \in pin.files
    /\ [dir |-> pin.input_file_directory, folder |-> pin.design.theme,
         file |-> <<"Header", ".j2.tex">>] \notin pin.files
    /\ ~themeCall.result.ok
    /\ themeCall.result.args[1].file = <<"Preamble", ".j2.tex">>

(***************************************************************************)
(* Properties of the keyword emphasis (checked under SpecBold).            *)
(***************************************************************************)
\* the str s with the whole-word occurrences of every keyword from k on wrapped
RECURSIVE AllWholeWordsWrapped(_, _)
AllWholeWordsWrapped(s, k) ==
    IF k > Len(bold_keywords) THEN s
    ELSE AllWholeWordsWrapped(Substitute(s, 1, bold_keywords[k], TRUE), k + 1)

WrappedValue(v) == IF v.t = "str" THEN Str(AllWholeWordsWrapped(v.s, 1)) ELSE v

\* the dictionary handed to the function with every str leaf wrapped, every
\* other leaf and the structure as they are
WrappedDocument ==
    [id \in 1..Len(doc) |->
        [kind |-> doc[id].kind,
         m |-> [key \in DOMAIN doc[id].m |-> WrappedValue(doc[id].m[key])],
         l |-> [i \in 1..Len(doc[id].l) |-> WrappedValue(doc[id].l[i])]]]

\* C20: the returned dictionary is the given one with, in every str leaf (a
\* value of a dict or an item of a list, at any depth), every whole-word
\* occurrence of each of the keywords wrapped in **, nothing else wrapped, and
\* the leaves that are no str unchanged.
C20_EveryKeywordWrappedAsWholeWord ==
    bolded.called => SameSubtree(bolded.h, bolded.ret, WrappedDocument, 1)

(***************************************************************************)
(* Properties of the file watcher (checked under SpecWatcher).             *)
(***************************************************************************)
\* the events handed to on_modified whose path is the watched file
QualifyingDelivered == {i \in 1..Len(delivered) : delivered[i] = WatchedPath}

C6_AtMostOneRerunInFlight == inFlight <= 1

\* C6 witness: an event for the watched file arrived while the call made for
\* an earlier event was still executing.
C6_Witness ==
    /\ obs = "handling"
    /\ inFlight = 1
    /\ queue # <<>>
    /\ Head(queue) = WatchedPath

\* C7: a failure of the first call leaves the function as an exception, but a
\* failure of a call made for a later event does not end the watching: the
\* observer thread stays alive to handle the events that follow.
C7_TriggeredFailureKeepsWatching ==
    /\ werr = "Exception" => (wphase = "raised" /\ obs = "not_started")
    /\ (handlerFailures > 0 /\ ~stopRequested) => obs \in {"checking", "getting", "handling"}

\* C8: when the interrupt arrives during the first call of the function, or in
\* the loop (the observer idle or executing a call), the function does not end
\* with the interrupt as an exception; it returns only after an interrupt, with
\* the observer thread ended and no call in flight.
C8_InterruptReturnsCleanly ==
    /\ interrupted \in {"in_function", "loop"} => werr # "KeyboardInterrupt"
    /\ wphase = "returned" =>
          (interrupted # "" /\ obs \in {"stopped", "dead"} /\ inFlight = 0)

====
